---- MODULE Spec2Model ----
\* Model of modules/video_capture.py: DummyCamera and VideoCapturer.
\* One VideoCapturer instance driven by one thread.  The capture library
\* (cv2.VideoCapture) and the device lister (pygrabber FilterGraph) are the
\* environment: the outcome of every open, set and read on a device handle,
\* and the number of enumerated devices, are chosen by the environment.
EXTENDS Integers, Naturals, Sequences, FiniteSets, TLC

VARIABLES
    platform,        \* platform.system()
    pc,              \* position of the single thread
    device_index,    \* self.device_index
    frame_callback,  \* self.frame_callback
    current_frame,   \* self._current_frame
    is_running,      \* self.is_running
    cap,             \* self.cap: the handle object it refers to, or NoHandle
    orphans,         \* handles self.cap was moved away from while still open
    args,            \* width, height, fps of the start() call in progress
    i,               \* position of the probe loop in capture_methods
    j,               \* next property to configure (1 width, 2 height, 3 fps)
    lastOp,          \* observation of the last call: name, result, effects
    last_start,      \* observation of the last start() that returned
    since_release,   \* release() was called and start() was not called since
    requested_cb,    \* last set_frame_callback call: its argument, what it replaced
    nStarts          \* number of start() calls made

vars == <<platform, pc, device_index, frame_callback, current_frame, is_running,
          cap, orphans, args, i, j, lastOp, last_start, since_release,
          requested_cb, nStarts>>

\* The fields of the VideoCapturer object and the handle objects it created.
progVars == <<device_index, frame_callback, current_frame, is_running, cap, orphans>>

----------------------------------------------------------------------------
\* Bounds of the model.
MaxDevices == 2
MaxIndex == 1
MaxPix == 1
MaxStarts == 2

\* Constants of the capture library and of the program.
CAP_ANY == 0
CAP_DSHOW == 700
CAP_AVFOUNDATION == 1200
CAP_PROP_FRAME_WIDTH == 3
CAP_PROP_FRAME_HEIGHT == 4
CAP_PROP_FPS == 5
DefaultWidth == 960
DefaultHeight == 540
DefaultFps == 60
Channels == 3

Platforms == {"Windows", "Darwin"}
DeviceIndices == (0 - 1)..MaxIndex
DeviceCounts == 0..MaxDevices
Callbacks == {"A", "B"}

\* The sizes start() is called with: the default one and another one.
Sizes == {[width |-> DefaultWidth, height |-> DefaultHeight],
          [width |-> 640, height |-> 480]}

\* None, per type.
NoCallback == "None"
NoFrame == [shape |-> <<0, 0, 0>>, fill |-> 0 - 1]
NoArgs == [width |-> 0, height |-> 0, fps |-> 0]
NoHandle == [kind |-> "None", width |-> 0, height |-> 0, is_open |-> FALSE,
             releases |-> 0, epoch |-> 0]

----------------------------------------------------------------------------
\* Frames.  A frame is an array of the given shape whose bytes all have the
\* value fill.

\* np.zeros((height, width, 3), dtype=np.uint8)
Zeros(height, width) == [shape |-> <<height, width, Channels>>, fill |-> 0]

\* what a device delivers: frames of one grey level, black included
DeviceFrames ==
    {[shape |-> <<480, 640, Channels>>, fill |-> p] : p \in 0..MaxPix}

----------------------------------------------------------------------------
\* Handles.  releases counts the calls of release() on the object and
\* epoch is the start() call that created it.

DummyCamera(width, height, epoch) ==
    [kind |-> "dummy", width |-> width, height |-> height, is_open |-> TRUE,
     releases |-> 0, epoch |-> epoch]

\* cv2.VideoCapture(dev_id, backend), opened or not
VideoCapture(opened, epoch) ==
    [kind |-> "device", width |-> 0, height |-> 0, is_open |-> opened,
     releases |-> 0, epoch |-> epoch]

isOpened(h) == h.is_open

HandleRelease(h) == [h EXCEPT !.is_open = FALSE, !.releases = @ + 1]

\* the results read() of a handle can give
HandleReads(h) ==
    IF h.kind = "dummy"
    THEN {<<TRUE, Zeros(h.height, h.width)>>}
    ELSE IF h.is_open
         THEN {<<FALSE, NoFrame>>} \cup {<<TRUE, f>> : f \in DeviceFrames}
         ELSE {<<FALSE, NoFrame>>}

\* the outcomes set(prop, value) of a handle can have
HandleSets(h) ==
    IF h.kind = "dummy" THEN {"ok"} ELSE {"ok", "rejected", "throws"}

ProbeOutcomes == {"throws", "unopened", "opened"}

\* capture_methods with the "-1" fallback moved ahead of the second probe of
\* the requested index
capture_methods_FallbackFirst(plat, idx) ==
    IF plat = "Windows"
    THEN << <<idx, CAP_DSHOW>>, <<0 - 1, CAP_ANY>>, <<idx, CAP_ANY>>, <<0, CAP_ANY>> >>
    ELSE << <<idx, CAP_ANY>>, <<0, CAP_ANY>>, <<idx, CAP_AVFOUNDATION>>,
            <<0, CAP_AVFOUNDATION>> >>

\* capture_methods with a fifth pair
capture_methods_FivePairs(plat, idx) ==
    IF plat = "Windows"
    THEN << <<idx, CAP_DSHOW>>, <<idx, CAP_ANY>>, <<0 - 1, CAP_ANY>>, <<0, CAP_ANY>>,
            <<0, CAP_DSHOW>> >>
    ELSE << <<idx, CAP_ANY>>, <<idx, CAP_AVFOUNDATION>>, <<0, CAP_ANY>>,
            <<0, CAP_AVFOUNDATION>>, <<0 - 1, CAP_ANY>> >>

capture_methods(plat, idx) ==
    IF plat = "Windows"
    THEN << <<idx, CAP_DSHOW>>, <<idx, CAP_ANY>>, <<0 - 1, CAP_ANY>>, <<0, CAP_ANY>> >>
    ELSE << <<idx, CAP_ANY>>, <<idx, CAP_AVFOUNDATION>>, <<0, CAP_ANY>>,
            <<0, CAP_AVFOUNDATION>> >>

NumMethods == Len(capture_methods("Windows", 0))

\* the native backend of the platform, as the comments of start() name it
NativeBackend(plat) == IF plat = "Windows" THEN CAP_DSHOW ELSE CAP_AVFOUNDATION

Props == <<CAP_PROP_FRAME_WIDTH, CAP_PROP_FRAME_HEIGHT, CAP_PROP_FPS>>

PropValue(a, k) == IF k = 1 THEN a.width ELSE IF k = 2 THEN a.height ELSE a.fps

\* self.cap = h: the object self.cap referred to is dropped; it stays among
\* the open handles when release() was never called on it.
Drop(old) == IF old.kind # "None" /\ old.is_open THEN Append(orphans, old) ELSE orphans

----------------------------------------------------------------------------
\* The observation record of a call.
NoAttempt == [k |-> 0, dev_id |-> 0, backend |-> 0, outcome |-> "none"]
NoSet == [k |-> 0, prop |-> 0, value |-> 0, outcome |-> "none"]

Op(name) ==
    [op |-> name, ret |-> FALSE, raised |-> "None", ndev |-> 0,
     frame |-> NoFrame, delegated |-> FALSE, called |-> <<>>,
     attempt |-> NoAttempt, failed |-> 0, set |-> NoSet, released |-> 0,
     double |-> FALSE, again |-> FALSE, rejected |-> 0]

NoRequest == [cb |-> NoCallback, old |-> NoCallback]

NoStart == [all_failed |-> FALSE, width |-> 0, height |-> 0, ret |-> FALSE]

Init ==
    /\ platform \in Platforms
    /\ pc = "new"
    /\ device_index = 0
    /\ frame_callback = NoCallback
    /\ current_frame = NoFrame
    /\ is_running = FALSE
    /\ cap = NoHandle
    /\ orphans = <<>>
    /\ args = NoArgs
    /\ i = 0
    /\ j = 0
    /\ lastOp = Op("none")
    /\ last_start = NoStart
    /\ since_release = FALSE
    /\ requested_cb = NoRequest
    /\ nStarts = 0

\* __init__ with the comparison "device_index > len(devices)"
Construct_OffByOne(idx, ndev) ==
    /\ pc = "new"
    /\ device_index' = idx
    /\ frame_callback' = NoCallback
    /\ current_frame' = NoFrame
    /\ is_running' = FALSE
    /\ cap' = NoHandle
    /\ IF platform = "Windows"
       THEN IF idx > ndev
            THEN /\ pc' = "invalid"
                 /\ lastOp' = [Op("init") EXCEPT !.raised = "ValueError", !.ndev = ndev]
            ELSE /\ pc' = "idle"
                 /\ lastOp' = [Op("init") EXCEPT !.ndev = ndev]
       ELSE /\ pc' = "idle"
            /\ lastOp' = Op("init")
    /\ UNCHANGED <<platform, orphans, args, i, j, last_start, since_release,
                   requested_cb, nStarts>>

\* VideoCapturer.__init__(device_index); ndev is len(devices) on Windows
Construct(idx, ndev) ==
    /\ pc = "new"
    /\ device_index' = idx
    /\ frame_callback' = NoCallback
    /\ current_frame' = NoFrame
    /\ is_running' = FALSE
    /\ cap' = NoHandle
    /\ IF platform = "Windows"
       THEN IF idx >= ndev
            THEN /\ pc' = "invalid"
                 /\ lastOp' = [Op("init") EXCEPT !.raised = "ValueError", !.ndev = ndev]
            ELSE /\ pc' = "idle"
                 /\ lastOp' = [Op("init") EXCEPT !.ndev = ndev]
       ELSE /\ pc' = "idle"
            /\ lastOp' = Op("init")
    /\ UNCHANGED <<platform, orphans, args, i, j, last_start, since_release,
                   requested_cb, nStarts>>

\* VideoCapturer.start: entry
StartCall(width, height, fps) ==
    /\ pc = "idle"
    /\ nStarts < MaxStarts
    /\ nStarts' = nStarts + 1
    /\ args' = [width |-> width, height |-> height, fps |-> fps]
    /\ i' = 1
    /\ pc' = "probe"
    /\ lastOp' = Op("start")
    /\ since_release' = FALSE
    /\ UNCHANGED <<platform, device_index, frame_callback, current_frame,
                   is_running, cap, orphans, j, last_start, requested_cb>>

\* the probe loop without its inner try: a constructor that raises reaches
\* the except branch of the outer try, which releases self.cap and returns False
Probe_Propagates(outcome) ==
    /\ pc = "probe"
    /\ LET m    == capture_methods(platform, device_index)[i]
           att  == [k |-> i, dev_id |-> m[1], backend |-> m[2], outcome |-> outcome]
           next == IF i = NumMethods THEN "check" ELSE "probe"
       IN CASE outcome = "throws" ->
                 /\ cap' = IF cap = NoHandle THEN cap ELSE HandleRelease(cap)
                 /\ UNCHANGED orphans
                 /\ lastOp' = [lastOp EXCEPT !.attempt = att, !.failed = @ + 1,
                                             !.ret = FALSE]
                 /\ pc' = "idle"
                 /\ i' = 0
            [] outcome = "unopened" ->
                 /\ cap' = HandleRelease(VideoCapture(FALSE, nStarts))
                 /\ orphans' = Drop(cap)
                 /\ lastOp' = [lastOp EXCEPT !.attempt = att, !.failed = @ + 1,
                                             !.released = @ + 1]
                 /\ pc' = next
                 /\ i' = i + 1
            [] outcome = "opened" ->
                 /\ cap' = VideoCapture(TRUE, nStarts)
                 /\ orphans' = Drop(cap)
                 /\ lastOp' = [lastOp EXCEPT !.attempt = att]
                 /\ pc' = "check"
                 /\ i' = i
    /\ UNCHANGED <<platform, device_index, frame_callback, current_frame,
                   is_running, args, j, last_start, since_release, requested_cb,
                   nStarts>>

\* the probe loop without its "break": the scan goes on after a handle opened
Probe_NoBreak(outcome) ==
    /\ pc = "probe"
    /\ LET m    == capture_methods(platform, device_index)[i]
           att  == [k |-> i, dev_id |-> m[1], backend |-> m[2], outcome |-> outcome]
           next == IF i = NumMethods THEN "check" ELSE "probe"
       IN CASE outcome = "throws" ->
                 /\ UNCHANGED <<cap, orphans>>
                 /\ lastOp' = [lastOp EXCEPT !.attempt = att, !.failed = @ + 1]
                 /\ pc' = next
                 /\ i' = i + 1
            [] outcome = "unopened" ->
                 /\ cap' = HandleRelease(VideoCapture(FALSE, nStarts))
                 /\ orphans' = Drop(cap)
                 /\ lastOp' = [lastOp EXCEPT !.attempt = att, !.failed = @ + 1,
                                             !.released = @ + 1]
                 /\ pc' = next
                 /\ i' = i + 1
            [] outcome = "opened" ->
                 /\ cap' = VideoCapture(TRUE, nStarts)
                 /\ orphans' = Drop(cap)
                 /\ lastOp' = [lastOp EXCEPT !.attempt = att]
                 /\ pc' = next
                 /\ i' = i + 1
    /\ UNCHANGED <<platform, device_index, frame_callback, current_frame,
                   is_running, args, j, last_start, since_release, requested_cb,
                   nStarts>>

\* the probe loop without "self.cap.release()" for a handle that is not opened
Probe_NoRelease(outcome) ==
    /\ pc = "probe"
    /\ LET m    == capture_methods(platform, device_index)[i]
           att  == [k |-> i, dev_id |-> m[1], backend |-> m[2], outcome |-> outcome]
           next == IF i = NumMethods THEN "check" ELSE "probe"
       IN CASE outcome = "throws" ->
                 /\ UNCHANGED <<cap, orphans>>
                 /\ lastOp' = [lastOp EXCEPT !.attempt = att, !.failed = @ + 1]
                 /\ pc' = next
                 /\ i' = i + 1
            [] outcome = "unopened" ->
                 /\ cap' = VideoCapture(FALSE, nStarts)
                 /\ orphans' = Drop(cap)
                 /\ lastOp' = [lastOp EXCEPT !.attempt = att, !.failed = @ + 1]
                 /\ pc' = next
                 /\ i' = i + 1
            [] outcome = "opened" ->
                 /\ cap' = VideoCapture(TRUE, nStarts)
                 /\ orphans' = Drop(cap)
                 /\ lastOp' = [lastOp EXCEPT !.attempt = att]
                 /\ pc' = "check"
                 /\ i' = i
    /\ UNCHANGED <<platform, device_index, frame_callback, current_frame,
                   is_running, args, j, last_start, since_release, requested_cb,
                   nStarts>>

\* VideoCapturer.start: one iteration of the probe loop over capture_methods.
\* The environment chooses what cv2.VideoCapture(dev_id, backend) does.
Probe(outcome) ==
    /\ pc = "probe"
    /\ LET m    == capture_methods(platform, device_index)[i]
           att  == [k |-> i, dev_id |-> m[1], backend |-> m[2], outcome |-> outcome]
           next == IF i = NumMethods THEN "check" ELSE "probe"
       IN CASE outcome = "throws" ->
                 \* the constructor raised: self.cap keeps its value; continue
                 /\ UNCHANGED <<cap, orphans>>
                 /\ lastOp' = [lastOp EXCEPT !.attempt = att, !.failed = @ + 1]
                 /\ pc' = next
                 /\ i' = i + 1
            [] outcome = "unopened" ->
                 \* self.cap is the new handle, isOpened() is False: release it
                 /\ cap' = HandleRelease(VideoCapture(FALSE, nStarts))
                 /\ orphans' = Drop(cap)
                 /\ lastOp' = [lastOp EXCEPT !.attempt = att, !.failed = @ + 1,
                                             !.released = @ + 1]
                 /\ pc' = next
                 /\ i' = i + 1
            [] outcome = "opened" ->
                 \* self.cap is the new handle, isOpened() is True: break
                 /\ cap' = VideoCapture(TRUE, nStarts)
                 /\ orphans' = Drop(cap)
                 /\ lastOp' = [lastOp EXCEPT !.attempt = att]
                 /\ pc' = "check"
                 /\ i' = i
    /\ UNCHANGED <<platform, device_index, frame_callback, current_frame,
                   is_running, args, j, last_start, since_release, requested_cb,
                   nStarts>>

\* VideoCapturer.start: "if not self.cap or not self.cap.isOpened()"
Degrade ==
    /\ pc = "check"
    /\ IF cap = NoHandle \/ ~isOpened(cap)
       THEN /\ cap' = DummyCamera(args.width, args.height, nStarts)
            /\ orphans' = Drop(cap)
       ELSE UNCHANGED <<cap, orphans>>
    /\ pc' = "configure"
    /\ j' = 1
    /\ UNCHANGED <<platform, device_index, frame_callback, current_frame,
                   is_running, args, i, lastOp, last_start, since_release,
                   requested_cb, nStarts>>

\* 1 for a set() that returned False
Rejected(outcome) == IF outcome = "rejected" THEN 1 ELSE 0

StartResult(op, ret) ==
    [all_failed |-> (op.failed = NumMethods), width |-> args.width,
     height |-> args.height, ret |-> ret]

\* start() whose except branch returns False without "self.cap.release()"
Configure_NoRelease(outcome) ==
    /\ pc = "configure"
    /\ outcome \in HandleSets(cap)
    /\ LET obs == [k |-> j, prop |-> Props[j], value |-> PropValue(args, j),
                   outcome |-> outcome]
       IN IF outcome = "throws"
          THEN /\ lastOp' = [lastOp EXCEPT !.set = obs, !.ret = FALSE]
               /\ last_start' = StartResult(lastOp, FALSE)
               /\ pc' = "idle"
               /\ i' = 0 /\ j' = 0 /\ args' = NoArgs
               /\ UNCHANGED <<cap, is_running>>
          ELSE IF j < Len(Props)
          THEN /\ lastOp' = [lastOp EXCEPT !.set = obs, !.rejected = @ + Rejected(outcome)]
               /\ j' = j + 1
               /\ UNCHANGED <<cap, is_running, last_start, pc, i, args>>
          ELSE /\ lastOp' = [lastOp EXCEPT !.set = obs, !.ret = TRUE,
                                           !.rejected = @ + Rejected(outcome)]
               /\ is_running' = TRUE
               /\ last_start' = StartResult(lastOp, TRUE)
               /\ pc' = "idle"
               /\ i' = 0 /\ j' = 0 /\ args' = NoArgs
               /\ UNCHANGED cap
    /\ UNCHANGED <<platform, device_index, frame_callback, current_frame,
                   orphans, since_release, requested_cb, nStarts>>

\* start() that treats a set() returning False as an error: it takes the
\* except branch
Configure_StopsOnRejected(outcome) ==
    /\ pc = "configure"
    /\ outcome \in HandleSets(cap)
    /\ LET obs == [k |-> j, prop |-> Props[j], value |-> PropValue(args, j),
                   outcome |-> outcome]
       IN IF outcome \in {"throws", "rejected"}
          THEN /\ cap' = HandleRelease(cap)
               /\ lastOp' = [lastOp EXCEPT !.set = obs, !.ret = FALSE,
                                           !.released = @ + 1,
                                           !.rejected = @ + Rejected(outcome)]
               /\ last_start' = StartResult(lastOp, FALSE)
               /\ pc' = "idle"
               /\ i' = 0 /\ j' = 0 /\ args' = NoArgs
               /\ UNCHANGED is_running
          ELSE IF j < Len(Props)
          THEN /\ lastOp' = [lastOp EXCEPT !.set = obs]
               /\ j' = j + 1
               /\ UNCHANGED <<cap, is_running, last_start, pc, i, args>>
          ELSE /\ lastOp' = [lastOp EXCEPT !.set = obs, !.ret = TRUE]
               /\ is_running' = TRUE
               /\ last_start' = StartResult(lastOp, TRUE)
               /\ pc' = "idle"
               /\ i' = 0 /\ j' = 0 /\ args' = NoArgs
               /\ UNCHANGED cap
    /\ UNCHANGED <<platform, device_index, frame_callback, current_frame,
                   orphans, since_release, requested_cb, nStarts>>

\* VideoCapturer.start: one self.cap.set(prop, value), then either the next
\* one, the normal return, or the except branch of the outer try.
Configure(outcome) ==
    /\ pc = "configure"
    /\ outcome \in HandleSets(cap)
    /\ LET obs == [k |-> j, prop |-> Props[j], value |-> PropValue(args, j),
                   outcome |-> outcome]
       IN IF outcome = "throws"
          THEN \* except Exception: if self.cap: self.cap.release(); return False
               /\ cap' = HandleRelease(cap)
               /\ lastOp' = [lastOp EXCEPT !.set = obs, !.ret = FALSE,
                                           !.released = @ + 1]
               /\ last_start' = StartResult(lastOp, FALSE)
               /\ pc' = "idle"
               /\ i' = 0 /\ j' = 0 /\ args' = NoArgs
               /\ UNCHANGED is_running
          ELSE IF j < Len(Props)
          THEN /\ lastOp' = [lastOp EXCEPT !.set = obs, !.rejected = @ + Rejected(outcome)]
               /\ j' = j + 1
               /\ UNCHANGED <<cap, is_running, last_start, pc, i, args>>
          ELSE \* self.is_running = True; return True
               /\ lastOp' = [lastOp EXCEPT !.set = obs, !.ret = TRUE,
                                           !.rejected = @ + Rejected(outcome)]
               /\ is_running' = TRUE
               /\ last_start' = StartResult(lastOp, TRUE)
               /\ pc' = "idle"
               /\ i' = 0 /\ j' = 0 /\ args' = NoArgs
               /\ UNCHANGED cap
    /\ UNCHANGED <<platform, device_index, frame_callback, current_frame,
                   orphans, since_release, requested_cb, nStarts>>

\* read() that hands the callback self._current_frame as it was before the
\* assignment
Read_StaleFrame(r) ==
    /\ pc = "idle"
    /\ IF ~is_running \/ cap = NoHandle
       THEN /\ lastOp' = Op("read")
            /\ UNCHANGED current_frame
       ELSE /\ r \in HandleReads(cap)
            /\ IF r[1]
               THEN /\ current_frame' = r[2]
                    /\ lastOp' = [Op("read") EXCEPT
                                     !.ret = TRUE, !.frame = r[2], !.delegated = TRUE,
                                     !.called = IF frame_callback # NoCallback
                                                THEN <<[cb |-> frame_callback,
                                                        frame |-> current_frame]>>
                                                ELSE <<>>]
               ELSE /\ lastOp' = [Op("read") EXCEPT !.delegated = TRUE]
                    /\ UNCHANGED current_frame
    /\ UNCHANGED <<platform, pc, device_index, frame_callback, is_running,
                   cap, orphans, args, i, j, last_start, since_release,
                   requested_cb, nStarts>>

\* read() that assigns self._current_frame before it tests ret
Read_ClearsOnFailure(r) ==
    /\ pc = "idle"
    /\ IF ~is_running \/ cap = NoHandle
       THEN /\ lastOp' = Op("read")
            /\ UNCHANGED current_frame
       ELSE /\ r \in HandleReads(cap)
            /\ current_frame' = r[2]
            /\ IF r[1]
               THEN lastOp' = [Op("read") EXCEPT
                                  !.ret = TRUE, !.frame = r[2], !.delegated = TRUE,
                                  !.called = IF frame_callback # NoCallback
                                             THEN <<[cb |-> frame_callback,
                                                     frame |-> r[2]]>>
                                             ELSE <<>>]
               ELSE lastOp' = [Op("read") EXCEPT !.delegated = TRUE]
    /\ UNCHANGED <<platform, pc, device_index, frame_callback, is_running,
                   cap, orphans, args, i, j, last_start, since_release,
                   requested_cb, nStarts>>

\* read() whose guard is "self.cap is None" alone
Read_NoGuardRunning(r) ==
    /\ pc = "idle"
    /\ IF cap = NoHandle
       THEN /\ lastOp' = Op("read")
            /\ UNCHANGED current_frame
       ELSE /\ r \in HandleReads(cap)
            /\ IF r[1]
               THEN /\ current_frame' = r[2]
                    /\ lastOp' = [Op("read") EXCEPT
                                     !.ret = TRUE, !.frame = r[2], !.delegated = TRUE,
                                     !.called = IF frame_callback # NoCallback
                                                THEN <<[cb |-> frame_callback,
                                                        frame |-> r[2]]>>
                                                ELSE <<>>]
               ELSE /\ lastOp' = [Op("read") EXCEPT !.delegated = TRUE]
                    /\ UNCHANGED current_frame
    /\ UNCHANGED <<platform, pc, device_index, frame_callback, is_running,
                   cap, orphans, args, i, j, last_start, since_release,
                   requested_cb, nStarts>>

\* VideoCapturer.read.  The environment chooses what the handle's read() gives.
Read(r) ==
    /\ pc = "idle"
    /\ IF ~is_running \/ cap = NoHandle
       THEN /\ lastOp' = Op("read")
            /\ UNCHANGED current_frame
       ELSE /\ r \in HandleReads(cap)
            /\ IF r[1]
               THEN /\ current_frame' = r[2]
                    /\ lastOp' = [Op("read") EXCEPT
                                     !.ret = TRUE, !.frame = r[2], !.delegated = TRUE,
                                     !.called = IF frame_callback # NoCallback
                                                THEN <<[cb |-> frame_callback,
                                                        frame |-> r[2]]>>
                                                ELSE <<>>]
               ELSE /\ lastOp' = [Op("read") EXCEPT !.delegated = TRUE]
                    /\ UNCHANGED current_frame
    /\ UNCHANGED <<platform, pc, device_index, frame_callback, is_running,
                   cap, orphans, args, i, j, last_start, since_release,
                   requested_cb, nStarts>>

\* release() that releases the handle and leaves is_running and self.cap as
\* they were
Release_NoClear ==
    /\ pc = "idle"
    /\ IF is_running /\ cap # NoHandle
       THEN /\ cap' = HandleRelease(cap)
            /\ lastOp' = [Op("release") EXCEPT
                             !.released = 1,
                             !.double = (HandleRelease(cap).releases > 1),
                             !.again = (lastOp.op = "release" /\ lastOp.released = 1)]
            /\ UNCHANGED is_running
       ELSE /\ lastOp' = [Op("release") EXCEPT !.again = (lastOp.op = "release" /\ lastOp.released = 1)]
            /\ UNCHANGED <<is_running, cap>>
    /\ since_release' = TRUE
    /\ UNCHANGED <<platform, pc, device_index, frame_callback, current_frame,
                   orphans, args, i, j, last_start, requested_cb, nStarts>>

\* release() whose guard is "self.cap is not None" alone
Release_IgnoresRunning ==
    /\ pc = "idle"
    /\ IF cap # NoHandle
       THEN /\ is_running' = FALSE
            /\ cap' = NoHandle
            /\ lastOp' = [Op("release") EXCEPT
                             !.released = 1,
                             !.double = (HandleRelease(cap).releases > 1),
                             !.again = (lastOp.op = "release" /\ lastOp.released = 1)]
       ELSE /\ lastOp' = [Op("release") EXCEPT !.again = (lastOp.op = "release" /\ lastOp.released = 1)]
            /\ UNCHANGED <<is_running, cap>>
    /\ since_release' = TRUE
    /\ UNCHANGED <<platform, pc, device_index, frame_callback, current_frame,
                   orphans, args, i, j, last_start, requested_cb, nStarts>>

\* release() that also forgets the last frame
Release_ClearsFrame ==
    /\ pc = "idle"
    /\ IF is_running /\ cap # NoHandle
       THEN /\ is_running' = FALSE
            /\ cap' = NoHandle
            /\ current_frame' = NoFrame
            /\ lastOp' = [Op("release") EXCEPT
                             !.released = 1,
                             !.double = (HandleRelease(cap).releases > 1),
                             !.again = (lastOp.op = "release" /\ lastOp.released = 1)]
       ELSE /\ lastOp' = [Op("release") EXCEPT !.again = (lastOp.op = "release" /\ lastOp.released = 1)]
            /\ UNCHANGED <<is_running, cap, current_frame>>
    /\ since_release' = TRUE
    /\ UNCHANGED <<platform, pc, device_index, frame_callback,
                   orphans, args, i, j, last_start, requested_cb, nStarts>>

\* VideoCapturer.release
Release ==
    /\ pc = "idle"
    /\ IF is_running /\ cap # NoHandle
       THEN /\ is_running' = FALSE
            /\ cap' = NoHandle
            /\ lastOp' = [Op("release") EXCEPT
                             !.released = 1,
                             !.double = (HandleRelease(cap).releases > 1),
                             !.again = (lastOp.op = "release" /\ lastOp.released = 1)]
       ELSE /\ lastOp' = [Op("release") EXCEPT !.again = (lastOp.op = "release" /\ lastOp.released = 1)]
            /\ UNCHANGED <<is_running, cap>>
    /\ since_release' = TRUE
    /\ UNCHANGED <<platform, pc, device_index, frame_callback, current_frame,
                   orphans, args, i, j, last_start, requested_cb, nStarts>>

\* set_frame_callback that keeps a callback already registered
SetFrameCallback_FirstWins(callback) ==
    /\ pc = "idle"
    /\ frame_callback' = IF frame_callback = NoCallback THEN callback ELSE frame_callback
    /\ requested_cb' = [cb |-> callback, old |-> frame_callback]
    /\ lastOp' = Op("set_frame_callback")
    /\ UNCHANGED <<platform, pc, device_index, current_frame, is_running,
                   cap, orphans, args, i, j, last_start, since_release, nStarts>>

\* VideoCapturer.set_frame_callback
SetFrameCallback(callback) ==
    /\ pc = "idle"
    /\ frame_callback' = callback
    /\ requested_cb' = [cb |-> callback, old |-> frame_callback]
    /\ lastOp' = Op("set_frame_callback")
    /\ UNCHANGED <<platform, pc, device_index, current_frame, is_running,
                   cap, orphans, args, i, j, last_start, since_release, nStarts>>

ReadResults ==
    {<<FALSE, NoFrame>>} \cup {<<TRUE, f>> : f \in DeviceFrames}
       \cup {<<TRUE, Zeros(s.height, s.width)>> : s \in Sizes}

Next ==
    \/ \E idx \in DeviceIndices, ndev \in DeviceCounts : Construct(idx, ndev)
    \/ \E s \in Sizes : StartCall(s.width, s.height, DefaultFps)
    \/ \E o \in ProbeOutcomes : Probe(o)
    \/ Degrade
    \/ \E o \in {"ok", "rejected", "throws"} : Configure(o)
    \/ \E r \in ReadResults : Read(r)
    \/ Release
    \/ \E cb \in Callbacks : SetFrameCallback(cb)

Spec == Init /\ [][Next]_vars

\* The thread that called start() keeps running it: a step of start() that
\* can be taken is taken.
StartStep ==
    \/ \E o \in ProbeOutcomes : Probe(o)
    \/ Degrade
    \/ \E o \in {"ok", "rejected", "throws"} : Configure(o)

LiveSpec == Spec /\ WF_vars(StartStep)

----------------------------------------------------------------------------
\* Properties.

\* the handles the VideoCapturer opened and did not release
OpenHandles == Len(orphans) + (IF cap.is_open THEN 1 ELSE 0)

\* C1: if every probe of the last start() failed, that start() returned True
\* and every read() made before release() returns (True, frame) with frame
\* all-zero of shape height x width x 3 of the size start() was called with.
C1_DummyAfterAllProbesFail ==
    (pc = "idle" /\ last_start.all_failed /\ ~since_release) =>
        /\ last_start.ret
        /\ lastOp.op = "read" =>
              /\ lastOp.ret
              /\ lastOp.frame = Zeros(last_start.height, last_start.width)

\* C2: a read() made after release(), with no start() in between, returns
\* (False, None), calls read() on no handle and invokes no callback.
C2_ReadAfterRelease ==
    (pc = "idle" /\ lastOp.op = "read" /\ since_release) =>
        /\ ~lastOp.ret
        /\ lastOp.frame = NoFrame
        /\ ~lastOp.delegated
        /\ lastOp.called = <<>>

\* a read() after release(), on a capturer that was started, had delivered a
\* frame and has a callback registered
C2_Witness ==
    /\ pc = "idle" /\ lastOp.op = "read" /\ since_release
    /\ last_start.ret
    /\ current_frame # NoFrame
    /\ frame_callback # NoCallback

\* C3: a read() that succeeds with a callback registered invokes that
\* callback exactly once, during the read, with the frame the read returns;
\* any other read() invokes no callback.
C3_CallbackOncePerSuccessfulRead ==
    (pc = "idle" /\ lastOp.op = "read") =>
        IF lastOp.ret /\ frame_callback # NoCallback
        THEN lastOp.called = <<[cb |-> frame_callback, frame |-> lastOp.frame]>>
        ELSE lastOp.called = <<>>

\* a successful read() with a callback registered, of a frame other than the
\* one delivered before it
C3_Witness ==
    /\ pc = "idle" /\ lastOp.op = "read" /\ lastOp.ret
    /\ frame_callback # NoCallback
    /\ Len(lastOp.called) = 1
    /\ lastOp.frame.fill > 0

\* C4: once set_frame_callback has been called, a successful read() invokes
\* the callback given to the last call, once, and never the one it replaced.
C4_LastCallbackWins ==
    (pc = "idle" /\ lastOp.op = "read" /\ requested_cb.cb # NoCallback) =>
        /\ \A k \in 1..Len(lastOp.called) :
              /\ lastOp.called[k].cb = requested_cb.cb
              /\ requested_cb.old # requested_cb.cb => lastOp.called[k].cb # requested_cb.old
        /\ lastOp.ret => Len(lastOp.called) = 1

\* a successful read() after a registered callback was replaced by another
C4_Witness ==
    /\ pc = "idle" /\ lastOp.op = "read" /\ lastOp.ret
    /\ requested_cb.old # NoCallback
    /\ requested_cb.old # requested_cb.cb
    /\ Len(lastOp.called) = 1
    /\ lastOp.called[1].cb = requested_cb.cb

\* C5: a release() that immediately follows a release(), and a release() of
\* a capturer that is not running, change no field of the capturer and call
\* release() on no handle.
C5_ReleaseIdempotent ==
    [][(/\ pc = "idle" /\ pc' = "idle"
        /\ lastOp'.op = "release"
        /\ (lastOp.op = "release" \/ ~is_running))
       => (/\ UNCHANGED progVars
           /\ lastOp'.released = 0
           /\ lastOp'.raised = "None")]_vars

\* a release() right after a release() that released the handle of a started
\* capturer
C5_Witness ==
    /\ pc = "idle" /\ lastOp.op = "release" /\ lastOp.again
    /\ last_start.ret
    /\ cap = NoHandle /\ ~is_running

\* C6: on Windows (devices are enumerated) the constructor succeeds for every
\* index within the enumerated range and raises for every index >= the
\* number of devices; elsewhere it never raises.
C6_ConstructorValidatesIndex ==
    (lastOp.op = "init") =>
        /\ (platform = "Windows" /\ 0 <= device_index /\ device_index < lastOp.ndev)
              => (pc = "idle" /\ lastOp.raised = "None")
        /\ (platform = "Windows" /\ device_index >= lastOp.ndev)
              => (pc = "invalid" /\ lastOp.raised = "ValueError")
        /\ platform # "Windows" => (pc = "idle" /\ lastOp.raised = "None")

\* the constructor raised for the index just past a non-empty device list
C6_Witness ==
    /\ lastOp.op = "init" /\ platform = "Windows"
    /\ lastOp.ndev > 0 /\ device_index = lastOp.ndev
    /\ pc = "invalid"

\* C7: at most one handle the capturer opened is unreleased at any time.
C7_AtMostOneOpenHandle == OpenHandles <= 1

\* C8: start() raises nothing; it returns True with is_running set unless a
\* set() on the handle raised, whatever the probes did, and returns False
\* only in that case.
C8_StartReturnsTrue ==
    (pc = "idle" /\ lastOp.op = "start") =>
        /\ lastOp.raised = "None"
        /\ lastOp.set.outcome # "throws" => (lastOp.ret /\ is_running)
        /\ ~lastOp.ret => lastOp.set.outcome = "throws"

\* a start() that returned True after a probe that failed
C8_Witness ==
    /\ pc = "idle" /\ lastOp.op = "start" /\ lastOp.ret /\ is_running
    /\ lastOp.failed > 0

\* C9 as stated: on every platform probe 1 is the requested index with the
\* native backend, probe 2 the requested index with the generic backend,
\* and the later probes use the fallback indices -1 and 0.
C9_NativeBackendFirst ==
    (lastOp.op = "start" /\ lastOp.attempt.k > 0) =>
        /\ lastOp.attempt.k = 1 =>
              /\ lastOp.attempt.dev_id = device_index
              /\ lastOp.attempt.backend = NativeBackend(platform)
        /\ lastOp.attempt.k = 2 =>
              /\ lastOp.attempt.dev_id = device_index
              /\ lastOp.attempt.backend = CAP_ANY
        /\ lastOp.attempt.k > 2 => lastOp.attempt.dev_id \in {0 - 1, 0}

\* C9 amended: probes 1 and 2 use the requested index, one with the native
\* backend and one with the generic backend, native first on Windows and
\* generic first elsewhere; the later probes use the fallback indices.
C9_RequestedIndexFirst ==
    (lastOp.op = "start" /\ lastOp.attempt.k > 0) =>
        /\ lastOp.attempt.k <= 2 =>
              /\ lastOp.attempt.dev_id = device_index
              /\ lastOp.attempt.backend \in {NativeBackend(platform), CAP_ANY}
              /\ (lastOp.attempt.backend = NativeBackend(platform))
                    <=> ((lastOp.attempt.k = 1) <=> (platform = "Windows"))
        /\ lastOp.attempt.k > 2 => lastOp.attempt.dev_id \in {0 - 1, 0}

\* off Windows, the scan went through both probes of the requested index
\* and reached a fallback index
C9_Witness ==
    /\ lastOp.op = "start" /\ platform # "Windows"
    /\ lastOp.attempt.k = 3
    /\ device_index # lastOp.attempt.dev_id

\* C10: on Windows the constructor raises for a negative index.
C10_NegativeIndexRejected ==
    (lastOp.op = "init" /\ platform = "Windows" /\ device_index < 0) =>
        (pc = "invalid" /\ lastOp.raised = "ValueError")

\* a start() call is in progress
InStart == pc \in {"probe", "check", "configure"}

\* the last call was start() and its probe scan is over
ScanOver == lastOp.op = "start" /\ (pc \in {"check", "configure"} \/ pc = "idle")

\* the handles created by the start() call in progress, or last made, on
\* which release() was never called
Unreleased ==
    (IF cap.epoch = nStarts /\ cap.kind # "None" /\ cap.releases = 0 THEN 1 ELSE 0)
    + Cardinality({k \in 1..Len(orphans) :
                      orphans[k].epoch = nStarts /\ orphans[k].releases = 0})

\* C11: the probes are attempted in the order of capture_methods; while the
\* scan goes on every probe so far has failed and the next pair is the one
\* after the last attempted; the scan is over either at the first probe whose
\* handle is opened, which is then the handle held, or after all the pairs
\* have failed.
C11_ScanStopsAtFirstOpened ==
    /\ (lastOp.op = "start" /\ lastOp.attempt.k > 0) =>
          /\ lastOp.attempt.k <= NumMethods
          /\ <<lastOp.attempt.dev_id, lastOp.attempt.backend>>
                = capture_methods(platform, device_index)[lastOp.attempt.k]
    /\ pc = "probe" =>
          /\ i = lastOp.attempt.k + 1
          /\ lastOp.failed = lastOp.attempt.k
          /\ lastOp.attempt.outcome # "opened"
    /\ ScanOver =>
          \/ /\ lastOp.attempt.outcome = "opened"
             /\ lastOp.failed = lastOp.attempt.k - 1
             /\ cap.kind = "device" /\ cap.epoch = nStarts
             /\ cap.is_open \/ (pc = "idle" /\ ~lastOp.ret)
          \/ /\ lastOp.attempt.outcome \in {"throws", "unopened"}
             /\ lastOp.attempt.k = NumMethods
             /\ lastOp.failed = NumMethods

\* start() returned holding the handle of its third probe, the first one
\* that opened, after a probe that raised and one that did not open
C11_Witness ==
    /\ pc = "idle" /\ lastOp.op = "start" /\ lastOp.ret
    /\ lastOp.attempt.k = 3 /\ lastOp.attempt.outcome = "opened"
    /\ lastOp.failed = 2 /\ lastOp.released = 1
    /\ cap.is_open /\ cap.epoch = nStarts

\* C12: when start() has returned False no handle it created is open, and no
\* step of a start() other than its return of True changes is_running.
C12_FalseStartReleasesHandles ==
    /\ [](  (pc = "idle" /\ lastOp.op = "start" /\ ~lastOp.ret) =>
              /\ cap.epoch = nStarts => ~cap.is_open
              /\ \A k \in 1..Len(orphans) : orphans[k].epoch # nStarts )
    /\ [][ (lastOp'.op = "start" /\ ~(pc' = "idle" /\ lastOp'.ret))
             => is_running' = is_running ]_vars

\* start() returned False after opening a device: that handle was released
\* and the capturer is not running
C12_Witness ==
    /\ pc = "idle" /\ lastOp.op = "start" /\ ~lastOp.ret
    /\ cap.kind = "device" /\ cap.epoch = nStarts
    /\ cap.releases = 1 /\ ~cap.is_open
    /\ ~is_running

\* C13: while the scan goes on, a handle it created has had release() called
\* on it and is not open; at every point of a start() at most one handle
\* created by it has not been released.
C13_FailedProbeReleased ==
    /\ (pc = "probe" /\ cap.epoch = nStarts /\ cap.kind # "None") =>
          (cap.releases = 1 /\ ~cap.is_open)
    /\ (InStart \/ lastOp.op = "start") => Unreleased <= 1

\* the scan goes on after a probe whose handle did not open and was released
C13_Witness ==
    /\ pc = "probe" /\ lastOp.attempt.outcome = "unopened"
    /\ cap.epoch = nStarts /\ cap.releases = 1

\* C14: a read() of a running capturer whose handle's read() fails returns
\* (False, None), invokes no callback and leaves _current_frame, is_running,
\* the handle and the callback as they were, so that the handle can give
\* afterwards whatever it could give before.
C14_FailedReadChangesNothing ==
    [][(/\ pc = "idle" /\ pc' = "idle"
        /\ lastOp'.op = "read" /\ lastOp'.delegated /\ ~lastOp'.ret)
       => (/\ lastOp'.frame = NoFrame
           /\ lastOp'.called = <<>>
           /\ lastOp'.raised = "None"
           /\ UNCHANGED <<current_frame, is_running, cap, orphans, frame_callback>>
           /\ HandleReads(cap') = HandleReads(cap))]_vars

\* a failed read() of a running capturer with an open device, a callback
\* registered and a frame delivered before
C14_Witness ==
    /\ pc = "idle" /\ lastOp.op = "read" /\ lastOp.delegated /\ ~lastOp.ret
    /\ is_running /\ cap.is_open
    /\ current_frame # NoFrame
    /\ frame_callback # NoCallback

\* C15: a read() of a capturer that is not running or holds no handle
\* returns (False, None), calls read() on no handle, invokes no callback,
\* starts nothing and leaves is_running, the handles and _current_frame as
\* they were.
C15_ReadWhenStoppedIsInert ==
    [][(/\ pc = "idle" /\ lastOp'.op = "read"
        /\ (~is_running \/ cap = NoHandle))
       => (/\ ~lastOp'.ret
           /\ lastOp'.frame = NoFrame
           /\ ~lastOp'.delegated
           /\ lastOp'.called = <<>>
           /\ pc' = "idle" /\ nStarts' = nStarts
           /\ UNCHANGED <<is_running, cap, orphans, current_frame>>)]_vars

\* a read() of a capturer that is not running and still refers to the
\* handle a failed start() released, with a callback registered
C15_Witness ==
    /\ pc = "idle" /\ lastOp.op = "read" /\ ~lastOp.delegated
    /\ ~is_running /\ cap # NoHandle
    /\ frame_callback # NoCallback

\* C16: start() calls set() for width, height and fps, in that order, with
\* the values it was called with, on the handle it obtained; a set() that
\* reports failure (returns False) is ignored: the properties after it are
\* still set, is_running becomes True and start() returns True.
C16_ConfigureBestEffort ==
    /\ (lastOp.op = "start" /\ lastOp.set.k > 0) =>
          /\ lastOp.set.prop = Props[lastOp.set.k]
          /\ lastOp.set.value =
                (IF pc = "idle"
                 THEN <<last_start.width, last_start.height, DefaultFps>>
                 ELSE <<args.width, args.height, args.fps>>)[lastOp.set.k]
    /\ pc = "configure" =>
          /\ lastOp.set.k = j - 1
          /\ lastOp.set.outcome \in {"none", "ok", "rejected"}
          /\ lastOp.rejected <= lastOp.set.k
    /\ (pc = "idle" /\ lastOp.op = "start" /\ lastOp.set.outcome # "throws") =>
          /\ lastOp.set.k = Len(Props)
          /\ lastOp.ret /\ is_running

\* start() returned True after the set() of an earlier property returned
\* False and the set() of the last one succeeded
C16_Witness ==
    /\ pc = "idle" /\ lastOp.op = "start" /\ lastOp.ret /\ is_running
    /\ lastOp.rejected > 0
    /\ lastOp.set.k = Len(Props) /\ lastOp.set.outcome = "ok"

\* C17: between calls, is_running implies that self.cap is a handle and that
\* this handle is open.
C17_RunningImpliesOpenHandle ==
    (pc = "idle" /\ is_running) => (cap # NoHandle /\ cap.is_open)

\* C18: _current_frame is None until a read() succeeds; it changes only in a
\* read() that succeeds, to the frame that read() returns, so that failed
\* reads, set_frame_callback, start() and release() leave it as it was.
C18_LastFrameOnlyByRead ==
    /\ [](  /\ pc = "new" => current_frame = NoFrame
            /\ (pc = "idle" /\ lastOp.op = "read" /\ lastOp.ret)
                  => (current_frame = lastOp.frame /\ current_frame # NoFrame) )
    /\ [][ current_frame' # current_frame
             => (/\ pc = "idle"
                 /\ lastOp'.op = "read" /\ lastOp'.ret
                 /\ current_frame' = lastOp'.frame) ]_vars

\* a start() that returned, made after a read() had delivered a frame, with
\* the frame still there
C18_Witness ==
    /\ pc = "idle" /\ lastOp.op = "start"
    /\ nStarts > 1
    /\ current_frame # NoFrame

\* C19: a start() call makes at most four open attempts, each pair of the
\* list once, and returns True or False.
C19_StartTerminates ==
    /\ [](  /\ lastOp.attempt.k <= 4
            /\ lastOp.failed <= lastOp.attempt.k
            /\ pc = "probe" => (i = lastOp.attempt.k + 1 /\ i <= 4) )
    /\ [][ /\ pc = "probe" => lastOp'.attempt.k = lastOp.attempt.k + 1
           /\ pc \in {"check", "configure"} => lastOp'.attempt = lastOp.attempt ]_vars
    /\ (pc \in {"probe", "check", "configure"})
          ~> (pc = "idle" /\ lastOp.op = "start" /\ lastOp.ret \in BOOLEAN)

\* start() returned after four open attempts, all failed
C19_Witness ==
    /\ pc = "idle" /\ lastOp.op = "start"
    /\ lastOp.attempt.k = 4 /\ lastOp.failed = 4

====
